---- MODULE Spec2Model ----
(***************************************************************************)
(* Model of app/models/calculation.py: the polymorphic Calculation         *)
(* hierarchy (Addition, Subtraction, Multiplication, Division), the        *)
(* factory Calculation.create, and the polymorphic mapping of the variants *)
(* onto the "type" discriminator column of the calculations table.         *)
(*                                                                         *)
(* Python values are tagged records [k, f, n, q, s]:                        *)
(*   k = "num"  : the number n/q (q > 0, lowest terms); f is TRUE for a    *)
(*                float and FALSE for an int.  The numbers drawn below are *)
(*                dyadic, so every float operation of the model is exact.  *)
(*   k = "str"  : the string whose characters are s                        *)
(*   k = "list" : the list whose elements are the values s                 *)
(*   k = "none" : None                                                     *)
(***************************************************************************)
EXTENDS Integers, Sequences, FiniteSets, TLC

\* ------------------------------------------------------------------ bounds
MaxLen == 3      \* longest inputs list that is drawn
MaxCalls == 2    \* get_result calls followed on one instance

\* ------------------------------------------------------------ Python values
Num(n, q, f) == [k |-> "num", f |-> f, n |-> n, q |-> q, s |-> <<>>]
PyInt(n) == Num(n, 1, FALSE)
Str(s) == [k |-> "str", f |-> FALSE, n |-> 0, q |-> 1, s |-> s]
List(s) == [k |-> "list", f |-> FALSE, n |-> 0, q |-> 1, s |-> s]
None == [k |-> "none", f |-> FALSE, n |-> 0, q |-> 1, s |-> <<>>]

IsNum(v) == v.k = "num"
IsInt(v) == v.k = "num" /\ ~v.f
IsList(v) == v.k = "list"

Abs(x) == IF x < 0 THEN -x ELSE x

RECURSIVE Gcd(_, _)
Gcd(a, b) == IF b = 0 THEN a ELSE Gcd(b, a % b)

\* n/q brought to lowest terms with a positive denominator (q # 0)
Norm(n, q, f) ==
  LET g == Gcd(Abs(n), Abs(q))
      sg == IF q < 0 THEN -1 ELSE 1
  IN Num((sg * n) \div g, (sg * q) \div g, f)

\* s repeated n times: sequence repetition, empty for n <= 0
RECURSIVE Rep(_, _)
Rep(s, n) == IF n <= 0 THEN <<>> ELSE s \o Rep(s, n - 1)

\* ---------------------------------------------------------------- outcomes
Return(v) == [tag |-> "return", val |-> v, msg |-> "", arg |-> <<>>]
Raise(tag, msg, arg) == [tag |-> tag, val |-> None, msg |-> msg, arg |-> arg]
TypeError == Raise("TypeError", "unsupported operand", <<>>)
InvalidInputKind == Raise("ValueError", "Inputs must be a list of numbers.", <<>>)
InsufficientInputs ==
  Raise("ValueError", "Inputs must be a list with at least two numbers.", <<>>)
DivisionByZero == Raise("ValueError", "Division by zero not permitted.", <<>>)
UnsupportedCalculationType(t) ==
  Raise("ValueError", "Unsupported calculation type: ", t)

\* ------------------------------------------------- Python binary operators
\* a + b as sum() applies it to a running number
PyAdd(a, b) ==
  IF IsNum(a) /\ IsNum(b)
    THEN Return(Norm(a.n * b.q + b.n * a.q, a.q * b.q, a.f \/ b.f))
    ELSE TypeError

\* a - b
PySub(a, b) ==
  IF IsNum(a) /\ IsNum(b)
    THEN Return(Norm(a.n * b.q - b.n * a.q, a.q * b.q, a.f \/ b.f))
    ELSE TypeError

\* a * b: numbers multiply, a sequence is repeated by an int
PyMul(a, b) ==
  IF IsNum(a) /\ IsNum(b)
    THEN Return(Norm(a.n * b.n, a.q * b.q, a.f \/ b.f))
  ELSE IF a.k \in {"str", "list"} /\ IsInt(b)
    THEN Return([a EXCEPT !.s = Rep(a.s, b.n)])
  ELSE IF IsInt(a) /\ b.k \in {"str", "list"}
    THEN Return([b EXCEPT !.s = Rep(b.s, a.n)])
  ELSE TypeError

\* value == 0
PyEqZero(v) == IsNum(v) /\ v.n = 0

\* a / b with b # 0: true division, always a float
PyTrueDiv(a, b) ==
  IF IsNum(a) /\ IsNum(b)
    THEN Return(Norm(a.n * b.q, a.q * b.n, TRUE))
    ELSE TypeError

\* ------------------------------------------------------------ Python strings
\* a str is the sequence of its characters
LowerCase == <<"a", "b", "c", "d", "e", "f", "g", "h", "i", "j", "k", "l", "m", "n", "o", "p", "q", "r", "s", "t", "u", "v", "w", "x", "y", "z">>
UpperCase == <<"A", "B", "C", "D", "E", "F", "G", "H", "I", "J", "K", "L", "M", "N", "O", "P", "Q", "R", "S", "T", "U", "V", "W", "X", "Y", "Z">>

\* the character c lower-cased: ASCII letters fold, everything else is kept
LowerChar(c) ==
  IF \E i \in 1..Len(UpperCase) : UpperCase[i] = c
    THEN LowerCase[CHOOSE i \in 1..Len(UpperCase) : UpperCase[i] = c]
    ELSE c

UpperChar(c) ==
  IF \E i \in 1..Len(LowerCase) : LowerCase[i] = c
    THEN UpperCase[CHOOSE i \in 1..Len(LowerCase) : LowerCase[i] = c]
    ELSE c

\* str.lower()
lower(t) == [i \in 1..Len(t) |-> LowerChar(t[i])]

ADDITION == <<"a", "d", "d", "i", "t", "i", "o", "n">>
SUBTRACTION == <<"s", "u", "b", "t", "r", "a", "c", "t", "i", "o", "n">>
MULTIPLICATION == <<"m", "u", "l", "t", "i", "p", "l", "i", "c", "a", "t", "i", "o", "n">>
DIVISION == <<"d", "i", "v", "i", "s", "i", "o", "n">>
CALCULATION == <<"c", "a", "l", "c", "u", "l", "a", "t", "i", "o", "n">>

\* ------------------------------------------------------------- the classes
Variants == {"Addition", "Subtraction", "Multiplication", "Division"}

\* __mapper_args__["polymorphic_identity"] of each mapped class
polymorphic_identity(cls) ==
  CASE cls = "Calculation" -> CALCULATION
    [] cls = "Addition" -> ADDITION
    [] cls = "Subtraction" -> SUBTRACTION
    [] cls = "Multiplication" -> SUBTRACTION
    [] cls = "Division" -> DIVISION

\* the mapped classes in the order the module defines them
MapperOrder == <<"Calculation", "Addition", "Subtraction", "Multiplication", "Division">>

\* the mapper's polymorphic_map: each class registers itself under its
\* identity when it is defined, a later class replacing an earlier one
polymorphic_map(ident) ==
  LET hits == {i \in 1..Len(MapperOrder) : polymorphic_identity(MapperOrder[i]) = ident}
  IN IF hits = {} THEN "NoClass"
     ELSE MapperOrder[CHOOSE i \in hits : \A j \in hits : j <= i]

\* an instance: the class and the column attributes of AbstractCalculation
NoObj == [cls |-> "NoObj", id |-> 0, user_id |-> "", type |-> <<>>,
          inputs |-> None, result |-> None]

\* calc_class(user_id=..., inputs=...): the declarative constructor sets the
\* keyword attributes and the mapper sets the discriminator; id is assigned
\* by the column default on INSERT and result stays unset
Construct_instance(cls, user_id, inputs) ==
  [cls |-> cls, id |-> 0, user_id |-> user_id, type |-> polymorphic_identity(cls),
   inputs |-> inputs, result |-> None]

\* calculation_classes.get(name)
calculation_classes(name) ==
  CASE name = ADDITION -> "Addition"
    [] name = SUBTRACTION -> "Subtraction"
    [] name = MULTIPLICATION -> "Multiplication"
    [] name = DIVISION -> "Division"
    [] OTHER -> "NoClass"

\* create with the lookup made on the name as passed, "lower()" forgotten
create_nolower(calculation_type, user_id, inputs) ==
  LET calc_class == calculation_classes(calculation_type)
  IN IF calc_class = "NoClass"
       THEN [ret |-> UnsupportedCalculationType(calculation_type), obj |-> NoObj]
       ELSE [ret |-> Return(None), obj |-> Construct_instance(calc_class, user_id, inputs)]

\* create with the error message built from the lower-cased name
create_lowermsg(calculation_type, user_id, inputs) ==
  LET calc_class == calculation_classes(lower(calculation_type))
  IN IF calc_class = "NoClass"
       THEN [ret |-> UnsupportedCalculationType(lower(calculation_type)), obj |-> NoObj]
       ELSE [ret |-> Return(None), obj |-> Construct_instance(calc_class, user_id, inputs)]

\* AbstractCalculation.create
create(calculation_type, user_id, inputs) ==
  LET calc_class == calculation_classes(lower(calculation_type))
  IN IF calc_class = "NoClass"
       THEN [ret |-> UnsupportedCalculationType(calculation_type), obj |-> NoObj]
       ELSE [ret |-> Return(None), obj |-> Construct_instance(calc_class, user_id, inputs)]

\* ---------------------------------------------------------------- get_result
\* every get_result yields the outcome of the call and the inputs attribute
\* as the call leaves it
RECURSIVE SumLoop(_, _, _)
SumLoop(acc, inputs, i) ==
  IF i > Len(inputs) THEN Return(acc)
  ELSE LET r == PyAdd(acc, inputs[i])
       IN IF r.tag # "return" THEN r ELSE SumLoop(r.val, inputs, i + 1)

\* sum(iterable): the running total starts at the int 0
sum(inputs) == SumLoop(PyInt(0), inputs, 1)

\* Addition.get_result summing inputs[1:] only
Addition_get_result_tail(self) ==
  IF ~IsList(self.inputs) THEN [ret |-> InvalidInputKind, inputs |-> self.inputs]
  ELSE IF Len(self.inputs.s) < 2 THEN [ret |-> InsufficientInputs, inputs |-> self.inputs]
  ELSE [ret |-> sum(Tail(self.inputs.s)), inputs |-> self.inputs]

Addition_get_result(self) ==
  IF ~IsList(self.inputs) THEN [ret |-> InvalidInputKind, inputs |-> self.inputs]
  ELSE IF Len(self.inputs.s) < 2 THEN [ret |-> InsufficientInputs, inputs |-> self.inputs]
  ELSE [ret |-> sum(self.inputs.s), inputs |-> self.inputs]

RECURSIVE SubLoop(_, _, _)
SubLoop(result, inputs, i) ==
  IF i > Len(inputs) THEN Return(result)
  ELSE LET r == PySub(result, inputs[i])
       IN IF r.tag # "return" THEN r ELSE SubLoop(r.val, inputs, i + 1)

\* Subtraction.get_result looping over inputs instead of inputs[1:]
Subtraction_get_result_all(self) ==
  IF ~IsList(self.inputs) THEN [ret |-> InvalidInputKind, inputs |-> self.inputs]
  ELSE IF Len(self.inputs.s) < 2 THEN [ret |-> InsufficientInputs, inputs |-> self.inputs]
  ELSE [ret |-> SubLoop(self.inputs.s[1], self.inputs.s, 1), inputs |-> self.inputs]

Subtraction_get_result(self) ==
  IF ~IsList(self.inputs) THEN [ret |-> InvalidInputKind, inputs |-> self.inputs]
  ELSE IF Len(self.inputs.s) < 2 THEN [ret |-> InsufficientInputs, inputs |-> self.inputs]
  ELSE [ret |-> SubLoop(self.inputs.s[1], self.inputs.s, 2), inputs |-> self.inputs]

\* result *= value.  result starts as the object inputs[0]; a list is
\* repeated in place by an int, so while result is still that object
\* (aliased) the element of inputs changes with it.  first is inputs[0] as
\* the loop leaves it.
RECURSIVE MulLoop(_, _, _, _, _)
MulLoop(result, aliased, first, inputs, i) ==
  IF i > Len(inputs) THEN [ret |-> Return(result), first |-> first]
  ELSE LET r == PyMul(result, inputs[i])
       IN IF r.tag # "return" THEN [ret |-> r, first |-> first]
          ELSE IF IsList(result)
            THEN MulLoop(r.val, aliased, IF aliased THEN r.val ELSE first, inputs, i + 1)
          ELSE MulLoop(r.val, FALSE, first, inputs, i + 1)

\* Multiplication.get_result looping over inputs instead of inputs[1:]
Multiplication_get_result_all(self) ==
  IF ~IsList(self.inputs) THEN [ret |-> InvalidInputKind, inputs |-> self.inputs]
  ELSE IF Len(self.inputs.s) < 2 THEN [ret |-> InsufficientInputs, inputs |-> self.inputs]
  ELSE LET l == MulLoop(self.inputs.s[1], TRUE, self.inputs.s[1], self.inputs.s, 1)
       IN [ret |-> l.ret,
           inputs |-> [self.inputs EXCEPT !.s = [self.inputs.s EXCEPT ![1] = l.first]]]

Multiplication_get_result(self) ==
  IF ~IsList(self.inputs) THEN [ret |-> InvalidInputKind, inputs |-> self.inputs]
  ELSE IF Len(self.inputs.s) < 2 THEN [ret |-> InsufficientInputs, inputs |-> self.inputs]
  ELSE LET l == MulLoop(self.inputs.s[1], TRUE, self.inputs.s[1], self.inputs.s, 2)
       IN [ret |-> l.ret,
           inputs |-> [self.inputs EXCEPT !.s = [self.inputs.s EXCEPT ![1] = l.first]]]

RECURSIVE DivLoop(_, _, _)
DivLoop(result, inputs, i) ==
  IF i > Len(inputs) THEN Return(result)
  ELSE IF PyEqZero(inputs[i]) THEN DivisionByZero
  ELSE LET r == PyTrueDiv(result, inputs[i])
       IN IF r.tag # "return" THEN r ELSE DivLoop(r.val, inputs, i + 1)

\* Division.get_result testing only the last divisor for zero; dividing by an
\* unchecked zero raises Python's own ZeroDivisionError
RECURSIVE DivLoop_last(_, _, _)
DivLoop_last(result, inputs, i) ==
  IF i > Len(inputs) THEN Return(result)
  ELSE IF i = Len(inputs) /\ PyEqZero(inputs[i]) THEN DivisionByZero
  ELSE IF PyEqZero(inputs[i]) THEN Raise("ZeroDivisionError", "division by zero", <<>>)
  ELSE LET r == PyTrueDiv(result, inputs[i])
       IN IF r.tag # "return" THEN r ELSE DivLoop_last(r.val, inputs, i + 1)

Division_get_result_last(self) ==
  IF ~IsList(self.inputs) THEN [ret |-> InvalidInputKind, inputs |-> self.inputs]
  ELSE IF Len(self.inputs.s) < 2 THEN [ret |-> InsufficientInputs, inputs |-> self.inputs]
  ELSE [ret |-> DivLoop_last(self.inputs.s[1], self.inputs.s, 2), inputs |-> self.inputs]

\* Division.get_result with the length test off by one ("< 1")
Division_get_result_len1(self) ==
  IF ~IsList(self.inputs) THEN [ret |-> InvalidInputKind, inputs |-> self.inputs]
  ELSE IF Len(self.inputs.s) < 1 THEN [ret |-> InsufficientInputs, inputs |-> self.inputs]
  ELSE [ret |-> DivLoop(self.inputs.s[1], self.inputs.s, 2), inputs |-> self.inputs]

Division_get_result(self) ==
  IF ~IsList(self.inputs) THEN [ret |-> InvalidInputKind, inputs |-> self.inputs]
  ELSE IF Len(self.inputs.s) < 2 THEN [ret |-> InsufficientInputs, inputs |-> self.inputs]
  ELSE [ret |-> DivLoop(self.inputs.s[1], self.inputs.s, 2), inputs |-> self.inputs]

\* self.get_result() by the class of self
get_result(self) ==
  CASE self.cls = "Addition" -> Addition_get_result(self)
    [] self.cls = "Subtraction" -> Subtraction_get_result(self)
    [] self.cls = "Multiplication" -> Multiplication_get_result(self)
    [] self.cls = "Division" -> Division_get_result(self)

\* ------------------------------------------------------------- persistence
\* the JSON column: json.dumps on the way in, json.loads on the way out.
\* A number is written as a literal, with a fraction part exactly when it is
\* a float, and read back as a float exactly when the literal has one.
RECURSIVE json_dumps(_)
json_dumps(v) ==
  CASE v.k = "num" -> [t |-> "number", dot |-> v.f, n |-> v.n, q |-> v.q, c |-> <<>>]
    [] v.k = "str" -> [t |-> "string", dot |-> FALSE, n |-> 0, q |-> 1, c |-> v.s]
    [] v.k = "list" -> [t |-> "array", dot |-> FALSE, n |-> 0, q |-> 1,
                        c |-> [i \in 1..Len(v.s) |-> json_dumps(v.s[i])]]
    [] v.k = "none" -> [t |-> "null", dot |-> FALSE, n |-> 0, q |-> 1, c |-> <<>>]

RECURSIVE json_loads(_)
json_loads(j) ==
  CASE j.t = "number" -> Num(j.n, j.q, j.dot)
    [] j.t = "string" -> Str(j.c)
    [] j.t = "array" -> List([i \in 1..Len(j.c) |-> json_loads(j.c[i])])
    [] j.t = "null" -> None

\* the row INSERTed for a pending instance: the id column default supplies
\* the key, the discriminator column holds the instance's type
insert_row(self, id) ==
  [id |-> id, user_id |-> self.user_id, type |-> self.type,
   inputs |-> json_dumps(self.inputs), result |-> self.result]

\* the instance a query builds from a row: its class is the one the
\* polymorphic_map holds for the row's discriminator
load_row(row) ==
  [cls |-> polymorphic_map(row.type), id |-> row.id, user_id |-> row.user_id,
   type |-> row.type, inputs |-> json_loads(row.inputs), result |-> row.result]

\* ------------------------------------------------------------ drawn inputs
UserIds == {"u1", "u2"}

NumValues == {PyInt(0), PyInt(-1), PyInt(2), Num(1, 2, TRUE)}
NonNumValues == {Str(<<"a">>), List(<<PyInt(1)>>)}
ElementValues == NumValues \cup NonNumValues

\* lists of up to MaxLen elements, and two values that are not lists
ListInputs == {List(s) : s \in UNION {[1..n -> ElementValues] : n \in 0..MaxLen}}
NonListInputs == {Str(<<"1", " ", "+", " ", "2">>), PyInt(2)}
InputValues == ListInputs \cup NonListInputs

\* type names: the four known names and three unknown ones, each written in
\* lower case, in upper case and with alternating case ("AdDiTiOn")
BaseNames == {ADDITION, SUBTRACTION, MULTIPLICATION, DIVISION,
              <<"p", "o", "w", "e", "r">>, <<>>, <<" ">> \o ADDITION}
AllUpper(t) == [i \in 1..Len(t) |-> UpperChar(t[i])]
Alternate(t) == [i \in 1..Len(t) |-> IF i % 2 = 1 THEN UpperChar(t[i]) ELSE t[i]]
TypeNames == BaseNames \cup {AllUpper(t) : t \in BaseNames}
                       \cup {Alternate(t) : t \in BaseNames}

\* ------------------------------------------------------------------- state
VARIABLES
  self,       \* the instance the behaviour follows, NoObj before it exists
  origin,     \* how self came to be: "none", "direct", "factory", "loaded"
  last,       \* the latest operation: its arguments, self before it, its outcome
  prev,       \* outcome of the previous get_result on self, NoCall if none
  ncalls,     \* get_result calls made on self
  table,      \* rows of the calculations table
  stored_by   \* class of the instance each row was inserted for, by row id

vars == <<self, origin, last, prev, ncalls, table, stored_by>>

NoCall == Raise("NoCall", "", <<>>)

Op(op, type, user_id, inputs, before, ret, prv) ==
  [op |-> op, type |-> type, user_id |-> user_id, inputs |-> inputs,
   before |-> before, ret |-> ret, prev |-> prv]

Init ==
  /\ self = NoObj
  /\ origin = "none"
  /\ last = Op("start", <<>>, "", None, NoObj, NoCall, NoCall)
  /\ prev = NoCall
  /\ ncalls = 0
  /\ table = {}
  /\ stored_by = <<>>

\* Calculation.create(calculation_type, user_id, inputs), the arguments drawn
Create ==
  /\ last.op = "start"
  /\ \E calculation_type \in TypeNames, user_id \in UserIds, inputs \in InputValues :
       LET r == create(calculation_type, user_id, inputs)
       IN /\ self' = r.obj
          /\ origin' = IF r.ret.tag = "return" THEN "factory" ELSE origin
          /\ last' = Op("create", calculation_type, user_id, inputs, self, r.ret, NoCall)
  /\ UNCHANGED <<prev, ncalls, table, stored_by>>

\* Addition(user_id=..., inputs=...) and the like: direct construction
Construct ==
  /\ last.op = "start"
  /\ \E cls \in Variants, user_id \in UserIds, inputs \in InputValues :
       /\ self' = Construct_instance(cls, user_id, inputs)
       /\ last' = Op("construct", <<>>, user_id, inputs, self, Return(None), NoCall)
  /\ origin' = "direct"
  /\ UNCHANGED <<prev, ncalls, table, stored_by>>

\* self.get_result()
GetResult ==
  /\ self.cls \in Variants
  /\ ncalls < MaxCalls
  /\ LET r == get_result(self)
     IN /\ self' = [self EXCEPT !.inputs = r.inputs]
        /\ last' = Op("get_result", <<>>, self.user_id, self.inputs, self, r.ret, prev)
        /\ prev' = r.ret
  /\ ncalls' = ncalls + 1
  /\ UNCHANGED <<origin, table, stored_by>>

\* session.add(self); session.commit(): the pending instance is inserted
Store ==
  /\ self.cls \in Variants
  /\ self.id = 0
  /\ LET id == Cardinality(table) + 1
     IN /\ table' = table \cup {insert_row(self, id)}
        /\ stored_by' = Append(stored_by, self.cls)
        /\ self' = [self EXCEPT !.id = id]
  /\ last' = Op("store", <<>>, self.user_id, self.inputs, self, Return(None), NoCall)
  /\ UNCHANGED <<origin, prev, ncalls>>

\* a fresh session queries the row of self: a new instance is built from it
Load ==
  /\ origin # "loaded"
  /\ \E row \in table :
       /\ self.id = row.id
       /\ self' = load_row(row)
       /\ last' = Op("load", <<>>, row.user_id, self.inputs, self, Return(None), NoCall)
  /\ origin' = "loaded"
  /\ prev' = NoCall
  /\ ncalls' = 0
  /\ UNCHANGED <<table, stored_by>>

Next ==
  \/ Create
  \/ Construct
  \/ GetResult
  \/ Store
  \/ Load

Spec == Init /\ [][Next]_vars

\* =================================================================== claims
\* t and name are the same word up to the case of its letters
SameWord(t, name) ==
  /\ Len(t) = Len(name)
  /\ \A i \in 1..Len(name) : t[i] = name[i] \/ t[i] = UpperChar(name[i])

KnownNames == {ADDITION, SUBTRACTION, MULTIPLICATION, DIVISION}
IsKnown(t) == \E name \in KnownNames : SameWord(t, name)

\* the variant the specification names for a type string
VariantNamed(t) ==
  CASE SameWord(t, ADDITION) -> "Addition"
    [] SameWord(t, SUBTRACTION) -> "Subtraction"
    [] SameWord(t, MULTIPLICATION) -> "Multiplication"
    [] SameWord(t, DIVISION) -> "Division"
    [] OTHER -> "NoClass"

\* inputs is a list holding numbers only
NumberList(inputs) == IsList(inputs) /\ \A i \in 1..Len(inputs.s) : IsNum(inputs.s[i])

\* sum and product of a sequence of numbers as a fraction <<numerator,
\* denominator>>, taken from the right end
RECURSIVE SumOf(_)
SumOf(s) ==
  IF s = <<>> THEN <<0, 1>>
  ELSE LET t == SumOf(Tail(s))
       IN <<Head(s).n * t[2] + t[1] * Head(s).q, Head(s).q * t[2]>>

RECURSIVE ProductOf(_)
ProductOf(s) ==
  IF s = <<>> THEN <<1, 1>>
  ELSE LET t == ProductOf(Tail(s))
       IN <<Head(s).n * t[1], Head(s).q * t[2]>>

\* the outcome is the number fr[1]/fr[2]
ReturnsNumber(ret, fr) ==
  /\ ret.tag = "return"
  /\ IsNum(ret.val)
  /\ ret.val.n * fr[2] = fr[1] * ret.val.q

\* the latest operation was get_result on an instance of class cls
Called(cls) == last.op = "get_result" /\ last.before.cls = cls

\* C1: create with a type string that is one of the four known names up to
\* letter case returns an instance of the variant of that name carrying the
\* given user_id and inputs unchanged, whatever the inputs value is, and
\* leaves result unset.
C1_FactoryBuildsNamedVariant ==
  (last.op = "create" /\ IsKnown(last.type)) =>
     /\ last.ret.tag = "return"
     /\ self.cls = VariantNamed(last.type)
     /\ self.user_id = last.user_id
     /\ self.inputs = last.inputs
     /\ self.result = None

C1_Witness ==
  /\ last.op = "create"
  /\ last.type = Alternate(ADDITION)
  /\ self.cls = "Addition"
  /\ last.inputs = PyInt(2)

\* C2: create with a type string that is none of the four known names up to
\* letter case raises ValueError "Unsupported calculation type: <s>" with the
\* string exactly as passed, and no instance exists.
C2_FactoryRejectsUnknown ==
  (last.op = "create" /\ ~IsKnown(last.type)) =>
     /\ last.ret.tag = "ValueError"
     /\ last.ret.msg = "Unsupported calculation type: "
     /\ last.ret.arg = last.type
     /\ self = NoObj

C2_Witness ==
  /\ last.op = "create"
  /\ last.type = <<"P", "o", "W", "e", "R">>
  /\ last.ret.tag = "ValueError"

\* C3: Addition.get_result on a list of at least two numbers returns the sum
\* of all its elements, for instances built directly or by the factory.
C3_AdditionSums ==
  (Called("Addition") /\ NumberList(last.inputs) /\ Len(last.inputs.s) >= 2) =>
     ReturnsNumber(last.ret, SumOf(last.inputs.s))

C3_Witness ==
  /\ Called("Addition")
  /\ origin = "factory"
  /\ last.inputs = List(<<PyInt(2), Num(1, 2, TRUE), PyInt(-1)>>)
  /\ last.ret = Return(Num(3, 2, TRUE))

\* C4: Subtraction.get_result on a list of at least two numbers returns the
\* first element minus every later element: a0 - (a1 + a2 + ...).
C4_SubtractionFoldsLeft ==
  (Called("Subtraction") /\ NumberList(last.inputs) /\ Len(last.inputs.s) >= 2) =>
     LET a0 == Head(last.inputs.s)
         t == SumOf(Tail(last.inputs.s))
     IN ReturnsNumber(last.ret, <<a0.n * t[2] - t[1] * a0.q, a0.q * t[2]>>)

\* [2, -1, 0.5] gives 2.5, which its reversal [0.5, -1, 2] (-0.5) does not
C4_Witness ==
  /\ Called("Subtraction")
  /\ last.inputs = List(<<PyInt(2), PyInt(-1), Num(1, 2, TRUE)>>)
  /\ last.ret = Return(Num(5, 2, TRUE))

\* C5: Multiplication.get_result on a list of at least two numbers returns
\* the product of all its elements, for instances built directly or by the
\* factory under a name that lower-cases to "multiplication".
C5_MultiplicationMultiplies ==
  (Called("Multiplication") /\ NumberList(last.inputs) /\ Len(last.inputs.s) >= 2) =>
     ReturnsNumber(last.ret, ProductOf(last.inputs.s))

C5_Witness ==
  /\ Called("Multiplication")
  /\ origin = "factory"
  /\ last.inputs = List(<<PyInt(2), PyInt(-1), PyInt(2)>>)
  /\ last.ret = Return(PyInt(-4))

\* C6: Division.get_result on a list of at least two numbers raises
\* ValueError "Division by zero not permitted." exactly when an element at
\* the second position or later is zero; otherwise it returns the first
\* element divided by every later element: result * (a1 * a2 * ...) = a0.
C6_DivisionFoldsOrRejectsZero ==
  (Called("Division") /\ NumberList(last.inputs) /\ Len(last.inputs.s) >= 2) =>
     LET a0 == Head(last.inputs.s)
         t == ProductOf(Tail(last.inputs.s))
         zero == \E i \in 2..Len(last.inputs.s) : last.inputs.s[i].n = 0
     IN /\ zero <=> last.ret = DivisionByZero
        /\ ~zero => ReturnsNumber(last.ret, <<a0.n * t[2], a0.q * t[1]>>)

\* a zero in the middle of the tail, after a zero first element
C6_Witness ==
  /\ Called("Division")
  /\ last.inputs = List(<<PyInt(0), PyInt(0), PyInt(2)>>)
  /\ last.ret = DivisionByZero

\* C7: get_result of each variant on a list of fewer than two elements
\* raises ValueError "Inputs must be a list with at least two numbers.",
\* before any arithmetic.
C7_ShortListRejected ==
  (last.op = "get_result" /\ IsList(last.inputs) /\ Len(last.inputs.s) < 2) =>
     /\ last.ret.tag = "ValueError"
     /\ last.ret.msg = "Inputs must be a list with at least two numbers."

C7_Witness ==
  /\ Called("Division")
  /\ last.inputs = List(<<PyInt(0)>>)
  /\ last.ret = InsufficientInputs

\* C8: get_result of each variant raises ValueError "Inputs must be a list
\* of numbers." whenever inputs is not a list, and whenever it is a list of
\* at least two elements that holds an element that is not a number.
C8_NonNumericRejected ==
  (/\ last.op = "get_result"
   /\ \/ ~IsList(last.inputs)
      \/ Len(last.inputs.s) >= 2 /\ ~NumberList(last.inputs)) =>
     last.ret = InvalidInputKind

\* C9: get_result leaves the instance as it was, and a repeated call on the
\* same instance has the outcome of the call before it.
C9_GetResultPure ==
  last.op = "get_result" =>
     /\ self = last.before
     /\ last.prev # NoCall => last.ret = last.prev

\* C10: a record reconstructed from its row is of the variant that stored
\* it: the stored kind is the name the factory dispatches to that variant
\* under, no other variant has that kind, and the reconstructed instance
\* computes what the stored one did.
C10_DiscriminatorIdentifiesVariant ==
  last.op = "load" =>
     LET writer == stored_by[self.id]
     IN /\ calculation_classes(self.type) = writer
        /\ \A c \in Variants \ {writer} : polymorphic_identity(c) # self.type
        /\ self.cls = writer
        /\ get_result(self).ret = get_result(last.before).ret

====
